---- MODULE Spec2Model ----
(***************************************************************************)
(* The proxy route of jvaught01/postman: POST /api/proxy forwards one HTTP *)
(* call, rate-limits per client address with a fixed-window counter kept   *)
(* in Redis and caches upstream responses in Redis with a TTL.             *)
(*                                                                         *)
(* Every request handler is a process that moves from one await to the     *)
(* next; the Redis store and the module-level redisClient are shared.      *)
(* Wall-clock time advances in Tick steps of Quantum seconds.              *)
(***************************************************************************)
EXTENDS Integers, Sequences, FiniteSets, TLC

\* ------------------------------------------------------------------ bounds
\* Seconds that pass in one Tick step.
Quantum == 10
\* The rate counter is not incremented past this value (RATE_LIMIT + 2).
MaxCount == 22
\* Requests accepted by the handler in one run of the cache-centred
\* specifications.
MaxStarts == 2
\* The longest time one await takes, in milliseconds.
MaxDelay == 1

\* ------------------------------------------------------- program constants
MAX_TTL == 30
RATE_LIMIT == 20
RATE_LIMIT_WINDOW == 60

\* ------------------------------------------------------------------ values
\* An optional value (undefined, null, a missing header or field): None or
\* Some(x).
None == <<>>
Some(x) == <<x>>

\* Strings the code inspects are sequences of characters.
HTTP == <<"h", "t", "t", "p", ":", "/", "/">>
HTTPS == <<"h", "t", "t", "p", "s", ":", "/", "/">>
UrlA == HTTP \o <<"a">>
UrlSecure == HTTPS \o <<"a">>
UrlFtp == <<"f", "t", "p", ":", "/", "/", "a">>
UrlEmpty == <<>>

\* String.prototype.startsWith
StartsWith(s, p) == Len(s) >= Len(p) /\ SubSeq(s, 1, Len(p)) = p

\* JavaScript truthiness of an optional string: undefined and '' are falsy.
TruthyStr(o) == o # None /\ o[1] # <<>>

\* JavaScript truthiness of an optional number: undefined and 0 are falsy.
TruthyNum(o) == o # None /\ o[1] # 0

\* The client address of a request: the x-forwarded-for header || 'unknown'.
\* Addresses are not inspected, so they are atoms; "" is the empty header.
ClientIp(xff) == IF xff # None /\ xff[1] # "" THEN xff[1] ELSE "unknown"

\* `rate_limit:${ip}`
RateKey(ip) == <<"rate_limit:", ip>>

\* JSON.stringify of a string: quotes around it, " and \ escaped.
RECURSIVE JsonEscape(_)
JsonEscape(s) ==
    IF s = <<>> THEN <<>>
    ELSE (IF Head(s) \in {"\"", "\\"} THEN <<"\\", Head(s)>> ELSE <<Head(s)>>)
         \o JsonEscape(Tail(s))

JsonString(s) == <<"\"">> \o JsonEscape(s) \o <<"\"">>

\* getCacheKey: `cache:${method}:${url}:${body ? JSON.stringify(body) : ''}`
getCacheKey(method, url, body) ==
    <<"cache:", method, ":">> \o url \o <<":">>
    \o (IF TruthyStr(body) THEN JsonString(body[1]) ELSE <<>>)

\* JSON.stringify of an object gives a text; JSON.parse of that text gives
\* the object back.
JSONstringify(obj) == [text |-> obj]
JSONparse(str) == str.text

\* Mutation of UrlRejected: only a missing or empty url is rejected.
UrlRejectedWhenEmpty(url) == ~TruthyStr(url)

\* The url check of POST: !url || (!url.startsWith('http://') &&
\* !url.startsWith('https://')) rejects.
UrlRejected(url) ==
    \/ ~TruthyStr(url)
    \/ (~StartsWith(url[1], HTTP) /\ ~StartsWith(url[1], HTTPS))

\* Mutation of UseRedis: a truthy enabled is taken for true.
UseRedisTruthy(cfg) == cfg # None /\ cfg[1].enabled \in {"true", "1"}

\* const useRedis = cache?.enabled === true
UseRedis(cfg) == cfg # None /\ cfg[1].enabled = "true"

\* Mutation of OverLimit: the comparison is off by one.
OverLimitFromLimit(requests) == requests >= RATE_LIMIT

\* requests > RATE_LIMIT
OverLimit(requests) == requests > RATE_LIMIT

\* EX: Math.min(cache?.ttl || MAX_TTL, MAX_TTL)
MinNum(a, b) == IF a < b THEN a ELSE b

\* Mutation of EffectiveEx: the requested ttl is not capped.
EffectiveExUncapped(cfg) ==
    IF cfg # None /\ TruthyNum(cfg[1].ttl) THEN cfg[1].ttl[1] ELSE MAX_TTL

EffectiveEx(cfg) ==
    MinNum(IF cfg # None /\ TruthyNum(cfg[1].ttl) THEN cfg[1].ttl[1] ELSE MAX_TTL,
           MAX_TTL)

\* Mutation of FetchBody: only GET goes without a body.
FetchBodyGetOnly(method, body) == IF method # "GET" THEN body ELSE None

\* body: method !== 'GET' && method !== 'HEAD' ? body : undefined
FetchBody(method, body) ==
    IF method # "GET" /\ method # "HEAD" THEN body ELSE None

\* ------------------------------------------------------------------- state
\* Request handlers that can be in progress at the same time.
Reqs == {"r1", "r2"}

VARIABLES
    envOk,        \* process.env.REDIS_URL passes envSchema
    redisClient,  \* the module-level redisClient of lib/redis.ts
    rate,         \* Redis: the rate_limit:<ip> keys, value and expiry
    cache,        \* Redis: the cache:... keys, value and expiry
    pc,           \* per handler: the await it stands at
    req,          \* per handler: the forward request it was given
    loc,          \* per handler: the locals of POST and isRateLimited
    resp,         \* per handler: the response it returned
    hist,         \* per handler: the calls it issued and what failed (history)
    win,          \* per client address: history of the current counter key
    last,         \* per cache key: history of the last miss answered with 200
    started       \* requests accepted so far (bounds the cache-centred runs)

vars ==
    <<envOk, redisClient, rate, cache, pc, req, loc, resp, hist, win, last,
      started>>

\* Everything a forward request can be made of.
XffValues == {None, Some("10.0.0.1")}
Methods == {"GET", "HEAD", "POST"}
Bodies == {None, Some(<<>>), Some(<<"x">>)}
TtlValues == {None, Some(0), Some(0 - 5), Some(20), Some(45)}
CacheConfigs ==
    {None} \cup [enabled : {"true", "false", "1"}, ttl : TtlValues]
Urls == {None, Some(UrlEmpty), Some(UrlFtp), Some(UrlA), Some(UrlSecure)}
BadJson == [json |-> FALSE]
Requests ==
    {BadJson} \cup
    [json : {TRUE}, xff : XffValues, url : Urls, method : Methods,
     body : Bodies, cache : {Some(c) : c \in CacheConfigs \ {None}} \cup {None}]

Ips == {ClientIp(x) : x \in XffValues}
GoodUrls == {u \in Urls : ~UrlRejected(u)}
CacheKeys == {getCacheKey(m, u[1], b) : m \in Methods, u \in GoodUrls, b \in Bodies}

\* What the upstream can answer: a response, the 30 s abort, another failure.
UpResponses ==
    { [status |-> 200, statusText |-> "OK", headers |-> "h1", data |-> "A"],
      [status |-> 404, statusText |-> "Not Found", headers |-> "h2", data |-> "B"] }
UpTimeout == [kind |-> "timeout"]
UpError == [kind |-> "error"]
UpOk(rsp) == [kind |-> "ok", response |-> rsp]
UpResults == {UpTimeout, UpError} \cup {UpOk(x) : x \in UpResponses}

\* A Redis key that does not exist; TTL answers -2 for it, and -1 for a key
\* without expiry.
NoKey == [present |-> FALSE]
NoCounter == [count |-> 0, ttl |-> 0 - 2]

NoLocals ==
    [redis |-> FALSE, requests |-> 0, cached |-> NoKey, el |-> 0,
     responseData |-> NoKey]
NoHistory ==
    [client |-> 0, incr |-> 0, expire |-> 0, get |-> 0, ttl |-> 0, set |-> 0,
     fetch |-> 0, rateFail |-> FALSE, lookupFail |-> FALSE, setFail |-> FALSE,
     exRejected |-> FALSE, up |-> None, ex |-> None, sent |-> None,
     ord |-> 0, clean |-> FALSE, inWin |-> FALSE, since |-> 0 - 1,
     after |-> None, pre |-> 0, upMs |-> 0, wait |-> 0, found |-> None]
NoWindow ==
    [seq |-> 0, seen |-> {}, dup |-> FALSE, passed |-> 0, since |-> 0 - 1,
     clean |-> TRUE]
NoResponse == [status |-> 0]

Init ==
    /\ envOk \in BOOLEAN
    /\ redisClient = "null"
    /\ rate = [c \in Ips |-> NoCounter]
    /\ cache = [k \in CacheKeys |-> NoKey]
    /\ pc = [r \in Reqs |-> "idle"]
    /\ req = [r \in Reqs |-> BadJson]
    /\ loc = [r \in Reqs |-> NoLocals]
    /\ resp = [r \in Reqs |-> NoResponse]
    /\ hist = [r \in Reqs |-> NoHistory]
    /\ win = [c \in Ips |-> NoWindow]
    /\ last = [k \in CacheKeys |-> NoKey]
    /\ started = 0

\* ------------------------------------------------------------ small helpers
Ip(r) == ClientIp(req[r].xff)
KeyOf(r) == getCacheKey(req[r].method, req[r].url[1], req[r].body)

\* The body of a response that reports a failure: {error: '...'}
ErrorBody(text) == [error |-> text]

\* NextResponse.json(body, {status})
Reply(status, body) == [status |-> status, body |-> body]

Goto(r, label) == pc' = [pc EXCEPT ![r] = label]
Return(r, reply) ==
    /\ pc' = [pc EXCEPT ![r] = "done"]
    /\ resp' = [resp EXCEPT ![r] = reply]

\* The time an await took is added to the handler's elapsed time
\* (performance.now() - startTime, in milliseconds).
Elapse(l, d) == [l EXCEPT !.el = @ + d]

\* ------------------------------------------------------- POST, lines 36-63
\* The handler is entered: req.json(), the url check, useRedis. A body that
\* is not JSON makes req.json() reject, which the outer catch answers 500.
Begin(r, rq) ==
    /\ pc[r] \in {"idle", "done"}
    /\ req' = [req EXCEPT ![r] = rq]
    /\ loc' = [loc EXCEPT ![r] = NoLocals]
    /\ hist' = [hist EXCEPT ![r] = NoHistory]
    /\ IF ~rq.json
          THEN Return(r, Reply(500, ErrorBody("serverError")))
          ELSE IF UrlRejected(rq.url)
                  THEN Return(r, Reply(400, ErrorBody("invalidUrl")))
                  ELSE /\ Goto(r, IF UseRedis(rq.cache) THEN "client" ELSE "fetch")
                       /\ resp' = [resp EXCEPT ![r] = NoResponse]
    /\ UNCHANGED <<envOk, redisClient, rate, cache, win, last>>

POST(r, rq) == Begin(r, rq) /\ UNCHANGED started

\* The same, in runs that accept at most MaxStarts requests.
CountedPOST(r, rq) ==
    /\ started < MaxStarts
    /\ started' = started + 1
    /\ Begin(r, rq)

\* Mutation of CatchVerdict: the limiter fails closed.
CatchVerdictClosed == TRUE

\* The catch of isRateLimited: console.error, return false.
CatchVerdict == FALSE

\* Mutation of RateVerdict: the verdict is not looked at.
RateVerdictIgnored(r, limited) == Goto(r, "get") /\ UNCHANGED resp

\* if (redis && await isRateLimited(ip, useRedis)) return 429; else the
\* handler goes on to the cache lookup.
RateVerdict(r, limited) ==
    IF limited
      THEN Return(r, Reply(429, ErrorBody("rateLimited")))
      ELSE Goto(r, "get") /\ UNCHANGED resp

\* ------------------------------------------- getRedisClient, redis.ts 9-37
\* It is called at line 65 of POST (pc "client") and at line 21 of
\* isRateLimited (pc "rlClient"); "connect" and "rlConnect" await connect().
AtClientCall(r) == pc[r] \in {"client", "rlClient"}
AtConnect(r) == pc[r] \in {"connect", "rlConnect"}
InPost(r) == pc[r] \in {"client", "connect"}

\* getRedisClient returned a client: POST keeps it in redis and goes on to
\* isRateLimited; isRateLimited goes on to incr.
ClientGot(r, d) ==
    /\ loc' = [loc EXCEPT ![r] =
                 Elapse(IF InPost(r) THEN [@ EXCEPT !.redis = TRUE] ELSE @, d)]
    /\ Goto(r, IF InPost(r) THEN "rlClient" ELSE "incr")
    /\ UNCHANGED <<win, resp>>

\* getRedisClient threw. In POST redis stays null, which skips the rate
\* check, the lookup and the store; in isRateLimited the catch returns false.
ClientThrew(r, d) ==
    /\ loc' = [loc EXCEPT ![r] = Elapse(@, d)]
    /\ win' = [win EXCEPT ![Ip(r)].clean = FALSE]
    /\ IF InPost(r)
         THEN Goto(r, "fetch") /\ UNCHANGED resp
         ELSE RateVerdict(r, CatchVerdict)

Called(h) == [h EXCEPT !.client = @ + 1]
ClientFailed(r, h) ==
    [h EXCEPT !.rateFail = TRUE, !.lookupFail = @ \/ InPost(r)]

\* if (redisClient) return redisClient
GetClientExisting(r, d) ==
    /\ AtClientCall(r)
    /\ redisClient # "null"
    /\ hist' = [hist EXCEPT ![r] = Called(@)]
    /\ ClientGot(r, d)
    /\ UNCHANGED <<envOk, redisClient, rate, cache, req, last, started>>

\* envSchema.parse throws before redisClient is assigned
GetClientEnvFail(r, d) ==
    /\ AtClientCall(r)
    /\ redisClient = "null"
    /\ ~envOk
    /\ hist' = [hist EXCEPT ![r] = ClientFailed(r, Called(@))]
    /\ ClientThrew(r, d)
    /\ UNCHANGED <<envOk, redisClient, rate, cache, req, last, started>>

\* redisClient = createClient(...); await redisClient.connect()
GetClientCreate(r) ==
    /\ AtClientCall(r)
    /\ redisClient = "null"
    /\ envOk
    /\ redisClient' = "connecting"
    /\ hist' = [hist EXCEPT ![r] = Called(@)]
    /\ Goto(r, IF InPost(r) THEN "connect" ELSE "rlConnect")
    /\ UNCHANGED <<envOk, rate, cache, req, loc, resp, win, last, started>>

\* connect() resolved
ConnectOk(r, d) ==
    /\ AtConnect(r)
    /\ redisClient' = "connected"
    /\ ClientGot(r, d)
    /\ UNCHANGED <<envOk, rate, cache, req, hist, last, started>>

\* connect() rejected: the catch rethrows, redisClient keeps the client
ConnectFail(r, d) ==
    /\ AtConnect(r)
    /\ redisClient' = "failed"
    /\ hist' = [hist EXCEPT ![r] = ClientFailed(r, @)]
    /\ ClientThrew(r, d)
    /\ UNCHANGED <<envOk, rate, cache, req, last, started>>

\* ------------------------------------------- isRateLimited, route.ts 17-34
\* Mutation of IncrResult: a read followed by a write, where the second of
\* two interleaved callers writes the value the first one wrote.
IncrResultLost(count) == IF count = 2 THEN 2 ELSE count + 1

\* INCR: the value the counter takes (a key that does not exist counts 0).
IncrResult(count) == count + 1

\* History of the counter key: a key that INCR creates starts a new window.
Counted(w, created, v) ==
    IF created
      THEN [NoWindow EXCEPT !.seq = 1, !.seen = {v}]
      ELSE [w EXCEPT !.seq = @ + 1, !.seen = @ \cup {v}, !.dup = @ \/ v \in w.seen]
Passed(w, counts) == IF counts THEN [w EXCEPT !.passed = @ + 1] ELSE w
Finished(w, first) == IF first THEN [w EXCEPT !.since = 0] ELSE w

\* Mutation of SetsExpiry: every request sets the expiry.
SetsExpiryAlways(requests) == TRUE

\* if (requests === 1) await redis.expire(key, RATE_LIMIT_WINDOW)
SetsExpiry(requests) == requests = 1

\* const requests = await redis.incr(key); with requests === 1 the expire
\* call follows, otherwise the verdict requests > RATE_LIMIT.
Incr(r, d) ==
    LET c == Ip(r)
        created == rate[c].count = 0
        v == IncrResult(rate[c].count)
        w == Counted(win[c], created, v)
    IN  /\ pc[r] = "incr"
        /\ rate[c].count < MaxCount
        /\ rate' = [rate EXCEPT ![c] =
                      [count |-> v, ttl |-> IF created THEN 0 - 1 ELSE @.ttl]]
        /\ loc' = [loc EXCEPT ![r] = Elapse([@ EXCEPT !.requests = v], d)]
        /\ hist' = [hist EXCEPT ![r] =
                      [@ EXCEPT !.incr = @ + 1, !.ord = w.seq, !.inWin = TRUE,
                                !.clean = w.clean, !.since = w.since]]
        /\ IF SetsExpiry(v)
             THEN Goto(r, "expire") /\ win' = [win EXCEPT ![c] = w]
                  /\ UNCHANGED resp
             ELSE RateVerdict(r, OverLimit(v))
                  /\ win' = [win EXCEPT ![c] = Passed(w, ~OverLimit(v))]
        /\ UNCHANGED <<envOk, redisClient, cache, req, last, started>>

\* A call of isRateLimited threw after getRedisClient had returned.
RateCheckThrew(r, d, first) ==
    /\ loc' = [loc EXCEPT ![r] = Elapse(@, d)]
    /\ win' = [win EXCEPT ![Ip(r)] =
                 Finished(Passed([@ EXCEPT !.clean = FALSE], first), first)]
    /\ RateVerdict(r, CatchVerdict)
    /\ UNCHANGED <<envOk, redisClient, rate, cache, req, last, started>>

\* redis.incr rejected
IncrFail(r, d) ==
    /\ pc[r] = "incr"
    /\ hist' = [hist EXCEPT ![r] = [@ EXCEPT !.incr = @ + 1, !.rateFail = TRUE]]
    /\ RateCheckThrew(r, d, FALSE)

\* await redis.expire(key, RATE_LIMIT_WINDOW); return requests > RATE_LIMIT.
\* EXPIRE on a key that is gone changes nothing.
Expire(r, d) ==
    LET c == Ip(r)
    IN  /\ pc[r] = "expire"
        /\ rate' = [rate EXCEPT ![c].ttl =
                      IF rate[c].count > 0 THEN RATE_LIMIT_WINDOW ELSE @]
        /\ loc' = [loc EXCEPT ![r] = Elapse(@, d)]
        /\ hist' = [hist EXCEPT ![r].expire = @ + 1]
        /\ win' = [win EXCEPT ![c] =
                     Finished(Passed(@, ~OverLimit(loc[r].requests)), TRUE)]
        /\ RateVerdict(r, OverLimit(loc[r].requests))
        /\ UNCHANGED <<envOk, redisClient, cache, req, last, started>>

\* redis.expire rejected: the counter keeps no expiry
ExpireFail(r, d) ==
    /\ pc[r] = "expire"
    /\ hist' = [hist EXCEPT ![r] = [@ EXCEPT !.expire = @ + 1, !.rateFail = TRUE]]
    /\ RateCheckThrew(r, d, TRUE)

\* ----------------------------------------- cache lookup, route.ts 80-112
\* TTL key: seconds left, -2 for a key that does not exist
TtlResult(entry) == IF entry.present THEN entry.ttl ELSE 0 - 2

\* History: the configuration of the last miss for the key, if that miss was
\* answered with 200 after a set call the store answered and the seconds
\* since are fewer than the ttl it asked for (absent or <= 0: the default).
AskedTtl(cfg) ==
    IF TruthyNum(cfg.ttl) /\ cfg.ttl[1] > 0 THEN cfg.ttl[1] ELSE MAX_TTL
FreshMiss(k) ==
    IF last[k].present /\ last[k].age < MinNum(AskedTtl(last[k].cfg), MAX_TTL)
      THEN Some(last[k].cfg)
      ELSE None

\* const cachedResponse = await redis.get(cacheKey); a value that is there
\* is a non-empty string and is parsed, then the ttl call follows.
Get(r, d) ==
    LET entry == cache[KeyOf(r)]
    IN  /\ pc[r] = "get"
        /\ hist' = [hist EXCEPT ![r] =
                      [@ EXCEPT !.get = @ + 1, !.after = FreshMiss(KeyOf(r)),
                                !.found = IF entry.present
                                            THEN Some(entry.hist)
                                            ELSE None]]
        /\ IF entry.present
             THEN /\ loc' = [loc EXCEPT ![r] = Elapse(
                               [@ EXCEPT !.cached =
                                   [present |-> TRUE, value |-> JSONparse(entry.val)]],
                               d)]
                  /\ Goto(r, "ttl")
             ELSE /\ loc' = [loc EXCEPT ![r] = Elapse(@, d)]
                  /\ Goto(r, "fetch")
        /\ UNCHANGED <<envOk, redisClient, rate, cache, req, resp, win, last,
                       started>>

\* Mutation of LookupThrew: the failure reaches the outer catch.
LookupThrewOut(r, d) ==
    /\ loc' = [loc EXCEPT ![r] = Elapse(@, d)]
    /\ Return(r, Reply(500, ErrorBody("serverError")))
    /\ UNCHANGED <<envOk, redisClient, rate, cache, req, win, last, started>>

\* Mutation of LookupThrew: the lookup is tried again.
LookupThrewRetry(r, d) ==
    /\ loc' = [loc EXCEPT ![r] = Elapse(@, d)]
    /\ Goto(r, "get")
    /\ UNCHANGED <<envOk, redisClient, rate, cache, req, resp, win, last,
                   started>>

\* The catch of the lookup: log, go on to the upstream call.
LookupThrew(r, d) ==
    /\ loc' = [loc EXCEPT ![r] = Elapse(@, d)]
    /\ Goto(r, "fetch")
    /\ UNCHANGED <<envOk, redisClient, rate, cache, req, resp, win, last,
                   started>>

\* redis.get rejected
GetFail(r, d) ==
    /\ pc[r] = "get"
    /\ hist' = [hist EXCEPT ![r] = [@ EXCEPT !.get = @ + 1, !.lookupFail = TRUE]]
    /\ LookupThrew(r, d)

\* Mutation of HitReply: the hit is reported with status 200 OK.
HitReplyOk(stored, ttl, currentTiming) ==
    Reply(200, [stored.data EXCEPT
                  !.status = 200, !.statusText = "OK",
                  !.cache = [hit |-> TRUE, ttl |-> ttl,
                             timeSaved |-> stored.originalTiming - currentTiming],
                  !.timing = currentTiming])

\* Mutation of HitReply: a negative timeSaved is reported as 0.
HitReplyClamped(stored, ttl, currentTiming) ==
    Reply(200, [stored.data EXCEPT
                  !.cache = [hit |-> TRUE, ttl |-> ttl,
                             timeSaved |->
                               IF stored.originalTiming < currentTiming
                                 THEN 0
                                 ELSE stored.originalTiming - currentTiming],
                  !.timing = currentTiming])

\* const ttl = await redis.ttl(cacheKey); the stored response is returned
\* with cache = {hit: true, ttl, timeSaved} and timing = currentTiming.
HitReply(stored, ttl, currentTiming) ==
    Reply(200, [stored.data EXCEPT
                  !.cache = [hit |-> TRUE, ttl |-> ttl,
                             timeSaved |-> stored.originalTiming - currentTiming],
                  !.timing = currentTiming])

\* Mutation of Ttl: the hit renews the expiry of the entry.
TtlRenewing(r, d) ==
    /\ pc[r] = "ttl"
    /\ cache[KeyOf(r)].present
    /\ cache' = [cache EXCEPT ![KeyOf(r)].ttl = MAX_TTL]
    /\ loc' = [loc EXCEPT ![r] = Elapse(@, d)]
    /\ hist' = [hist EXCEPT ![r].ttl = @ + 1]
    /\ Return(r, HitReply(loc[r].cached.value, MAX_TTL, loc[r].el + d))
    /\ UNCHANGED <<envOk, redisClient, rate, req, win, last, started>>

Ttl(r, d) ==
    /\ pc[r] = "ttl"
    /\ loc' = [loc EXCEPT ![r] = Elapse(@, d)]
    /\ hist' = [hist EXCEPT ![r].ttl = @ + 1]
    /\ Return(r, HitReply(loc[r].cached.value, TtlResult(cache[KeyOf(r)]),
                          loc[r].el + d))
    /\ UNCHANGED <<envOk, redisClient, rate, cache, req, win, last, started>>

\* redis.ttl rejected
TtlFail(r, d) ==
    /\ pc[r] = "ttl"
    /\ hist' = [hist EXCEPT ![r] = [@ EXCEPT !.ttl = @ + 1, !.lookupFail = TRUE]]
    /\ LookupThrew(r, d)

\* ----------------------------------------- upstream call, route.ts 114-137
\* Mutation of CatchReply: every failure is answered 500.
CatchReplyGeneric(isTimeout) == Reply(500, ErrorBody("serverError"))

\* The catch of POST: 408 for a TimeoutError, 500 for anything else.
CatchReply(isTimeout) ==
    IF isTimeout
      THEN Reply(408, ErrorBody("timeout"))
      ELSE Reply(500, ErrorBody("serverError"))

\* Mutation of TotalTiming: the clock is started right before the fetch.
TotalTimingOfFetch(el, d) == d

\* const startTime = performance.now() is the first statement of POST; after
\* the body is read, totalTiming = Math.round(endTime - startTime): the
\* time elapsed before the fetch plus the time the fetch took.
TotalTiming(el, d) == el + d

\* responseData
ResponseData(rsp, totalTiming) ==
    [status |-> rsp.status, statusText |-> rsp.statusText,
     headers |-> rsp.headers, data |-> rsp.data, timing |-> totalTiming,
     cache |-> [hit |-> FALSE]]

\* if (redis && useRedis) the response is stored, else it is returned
StoresResponse(r) == loc[r].redis /\ UseRedis(req[r].cache)

\* History: the miss of handler r is answered with 200 after its set call.
Missed(r, k, called) ==
    [last EXCEPT ![k] =
       IF called
         THEN [present |-> TRUE, cfg |-> req[r].cache[1], age |-> 0]
         ELSE NoKey]

\* await fetch(url, {method, headers, body, signal}); the body is read
Fetch(r, up, d) ==
    /\ pc[r] = "fetch"
    /\ hist' = [hist EXCEPT ![r] =
                  [@ EXCEPT !.fetch = @ + 1, !.up = Some(up),
                            !.sent = Some(FetchBody(req[r].method, req[r].body)),
                            !.pre = loc[r].el, !.upMs = d]]
    /\ IF up.kind = "ok"
         THEN LET rd == ResponseData(up.response, TotalTiming(loc[r].el, d))
              IN  /\ loc' = [loc EXCEPT ![r] =
                               Elapse([@ EXCEPT !.responseData = rd], d)]
                  /\ IF StoresResponse(r)
                       THEN Goto(r, "set") /\ UNCHANGED resp
                       ELSE Return(r, Reply(200, rd))
         ELSE /\ loc' = [loc EXCEPT ![r] = Elapse(@, d)]
              /\ Return(r, CatchReply(up.kind = "timeout"))
    /\ UNCHANGED <<envOk, redisClient, rate, cache, req, win, last, started>>

\* ------------------------------------------- cache store, route.ts 139-158
\* SET key value EX seconds: Redis rejects an expiry that is not positive
\* ("ERR invalid expire time"), and the key is left as it was.
SetAccepted(ex) == ex >= 1

CacheValue(rd) == JSONstringify([data |-> rd, originalTiming |-> rd.timing])

\* Mutation of Stored: SET with NX, an entry that is there is kept.
StoredIfAbsent(entry, new) == IF entry.present THEN entry ELSE new

\* SET without NX or XX: the key takes the new value and expiry, whatever
\* it held.
Stored(entry, new) == new

\* Mutation of SetCatch: no try around the set call, the failure reaches
\* the outer catch.
SetCatchOut(r) == Return(r, Reply(500, ErrorBody("serverError")))

\* The catch around the set call: console.error; then line 158 returns
\* responseData.
SetCatch(r) == Return(r, Reply(200, loc[r].responseData))

\* History of an entry: the response returned by the handler whose set
\* call wrote it, the seconds from the end of that handler's upstream call
\* to the set call, and the seconds since the set call.
Written(r) == [reply |-> loc[r].responseData, wait |-> hist[r].wait, age |-> 0]

\* await redis.set(cacheKey, cacheValue, options); return responseData
Set(r) ==
    LET k == KeyOf(r)
        ex == EffectiveEx(req[r].cache)
        rd == loc[r].responseData
    IN  /\ pc[r] = "set"
        /\ hist' = [hist EXCEPT ![r] =
                      [@ EXCEPT !.set = @ + 1, !.ex = Some(ex),
                                !.exRejected = ~SetAccepted(ex)]]
        /\ cache' = IF SetAccepted(ex)
                      THEN [cache EXCEPT ![k] =
                              Stored(@, [present |-> TRUE, val |-> CacheValue(rd),
                                         ttl |-> ex, hist |-> Written(r)])]
                      ELSE cache
        /\ last' = Missed(r, k, TRUE)
        /\ IF SetAccepted(ex) THEN Return(r, Reply(200, rd)) ELSE SetCatch(r)
        /\ UNCHANGED <<envOk, redisClient, rate, req, loc, win, started>>

\* redis.set rejected
SetFail(r) ==
    /\ pc[r] = "set"
    /\ hist' = [hist EXCEPT ![r] =
                  [@ EXCEPT !.set = @ + 1, !.ex = Some(EffectiveEx(req[r].cache)),
                            !.setFail = TRUE]]
    /\ last' = Missed(r, KeyOf(r), FALSE)
    /\ SetCatch(r)
    /\ UNCHANGED <<envOk, redisClient, rate, cache, req, loc, win, started>>

\* ------------------------------------------ a store call without an answer
\* No store call carries a timeout (the client is created with the url
\* alone): a call the store never answers leaves its promise pending, and
\* the handler stays at that await.
StoreAwaits == {"connect", "rlConnect", "incr", "expire", "get", "ttl", "set"}

Unanswered(r) ==
    /\ pc[r] \in StoreAwaits
    /\ Goto(r, "pending")
    /\ UNCHANGED <<envOk, redisClient, rate, cache, req, loc, resp, hist, win,
                   last, started>>

\* -------------------------------------------------------------------- time
\* Quantum seconds pass: Redis counts the expiries down and drops the keys
\* whose time is up.
Aged(entry) ==
    IF entry.present /\ entry.ttl > 0
      THEN IF entry.ttl > Quantum
             THEN [entry EXCEPT !.ttl = @ - Quantum, !.hist.age = @ + Quantum]
             ELSE NoKey
      ELSE entry
AgedCounter(ctr) ==
    IF ctr.ttl > 0
      THEN IF ctr.ttl > Quantum THEN [ctr EXCEPT !.ttl = @ - Quantum] ELSE NoCounter
      ELSE ctr
Older(age, cap) == MinNum(age + Quantum, cap)

\* History: the seconds a handler of the set `slow` has stood at its set
\* call since its upstream call ended (counted up to MAX_TTL).
Waited(r, h, slow) ==
    IF r \in slow /\ pc[r] = "set"
      THEN [h EXCEPT !.wait = Older(@, MAX_TTL)]
      ELSE h

TimePasses(slow) ==
    /\ rate' = [c \in Ips |-> AgedCounter(rate[c])]
    /\ cache' = [k \in CacheKeys |-> Aged(cache[k])]
    /\ win' = [c \in Ips |->
                 IF rate[c].count > 0 /\ AgedCounter(rate[c]).count = 0
                   THEN NoWindow
                   ELSE IF win[c].since >= 0
                          THEN [win[c] EXCEPT !.since = Older(@, RATE_LIMIT_WINDOW)]
                          ELSE win[c]]
    /\ hist' = [r \in Reqs |->
                  Waited(r, IF hist[r].inWin /\ AgedCounter(rate[Ip(r)]).count = 0
                              THEN [hist[r] EXCEPT !.inWin = FALSE]
                              ELSE hist[r], slow)]
    /\ last' = [k \in CacheKeys |->
                  IF last[k].present
                    THEN [last[k] EXCEPT !.age = Older(@, MAX_TTL)]
                    ELSE last[k]]
    /\ UNCHANGED <<envOk, redisClient, pc, req, loc, resp, started>>

\* Time passes; how long handlers stand at a set call is not recorded.
Tick == TimePasses({})

\* Time passes while handler r stands at its set call (the store is slow
\* to answer), and that time is recorded.
SlowSet(r) == pc[r] = "set" /\ TimePasses({r})

\* --------------------------------------------------------- specifications
\* The steps of a handler whose store calls are answered.
Proceed(r, D, U) ==
    \/ \E d \in D : GetClientExisting(r, d)
    \/ GetClientCreate(r)
    \/ \E d \in D : ConnectOk(r, d)
    \/ \E d \in D : Incr(r, d)
    \/ \E d \in D : Expire(r, d)
    \/ \E d \in D : Get(r, d)
    \/ \E d \in D : Ttl(r, d)
    \/ \E d \in D, up \in U : Fetch(r, up, d)
    \/ Set(r)

\* The steps of a handler whose store call fails.
RateFail(r, D) ==
    \/ \E d \in D : IncrFail(r, d)
    \/ \E d \in D : ExpireFail(r, d)

Fail(r, D) ==
    \/ \E d \in D : GetClientEnvFail(r, d)
    \/ \E d \in D : ConnectFail(r, d)
    \/ RateFail(r, D)
    \/ \E d \in D : GetFail(r, d)
    \/ \E d \in D : TtlFail(r, d)
    \/ SetFail(r)

NoDelay == {0}
OneAnswer == {UpOk([status |-> 200, statusText |-> "OK", headers |-> "h1", data |-> "A"])}
Address == Some("10.0.0.1")

\* Spec: one handler at a time, any forward request of one client for one
\* url, every store call may fail, at most MaxStarts requests.
Enabled(t) == Some([enabled |-> "true", ttl |-> t])
Forward(url, cfg) ==
    [json |-> TRUE, xff |-> Address, url |-> url, method |-> "GET",
     body |-> None, cache |-> cfg]
PipelineRequests ==
    {BadJson}
    \cup {Forward(u, c) : u \in {None, Some(UrlEmpty), Some(UrlFtp)},
                          c \in {None, Enabled(None)}}
    \cup {Forward(Some(UrlA), c) :
            c \in {None, Some([enabled |-> "false", ttl |-> Some(20)]),
                   Some([enabled |-> "1", ttl |-> Some(20)])}
                  \cup {Enabled(t) : t \in TtlValues}}

Next ==
    \/ \E rq \in PipelineRequests : CountedPOST("r1", rq)
    \/ Proceed("r1", NoDelay, {UpTimeout, UpError} \cup OneAnswer)
    \/ Fail("r1", NoDelay)
    \/ Tick

Spec == Init /\ [][Next]_vars

\* SpecRate: one handler at a time, cache-enabled and cache-less requests of
\* one client, every store call may fail, any number of requests: the
\* counter runs past RATE_LIMIT.
RateRequests ==
    {Forward(Some(UrlA), c) :
       c \in {None, Enabled(None), Some([enabled |-> "1", ttl |-> None])}}

NextRate ==
    \/ \E rq \in RateRequests : POST("r1", rq)
    \/ Proceed("r1", NoDelay, {UpError} \cup OneAnswer)
    \/ Fail("r1", NoDelay)
    \/ Tick

SpecRate == Init /\ [][NextRate]_vars

\* SpecPair: two handlers in progress at once for cache-enabled requests of
\* one client inside one rate window (no time passes), the calls of the
\* rate check may fail.
PairRequests == {Forward(Some(UrlA), Enabled(None))}

NextPair ==
    \E r \in Reqs :
       \/ \E rq \in PairRequests : POST(r, rq)
       \/ Proceed(r, NoDelay, OneAnswer)
       \/ RateFail(r, NoDelay)

SpecPair == Init /\ [][NextPair]_vars

\* SpecForward: one handler at a time, requests of every method with and
\* without a body, cache-enabled or not, for one url; at most MaxStarts
\* requests.
ForwardRequests ==
    [json : {TRUE}, xff : {Address}, url : {Some(UrlA)}, method : Methods,
     body : {None, Some(<<"x">>)}, cache : {None, Enabled(None)}]

NextForward ==
    \/ \E rq \in ForwardRequests : CountedPOST("r1", rq)
    \/ Proceed("r1", NoDelay, {UpError} \cup OneAnswer)
    \/ Fail("r1", NoDelay)

SpecForward == Init /\ [][NextForward]_vars

\* SpecTiming: one handler at a time, cache-enabled and cache-less requests
\* for one key; every await takes no time or MaxDelay milliseconds and the
\* calls of the rate check may fail; at most MaxStarts requests.
Delays == {0, MaxDelay}
TimingRequests == {Forward(Some(UrlA), c) : c \in {None, Enabled(None)}}

NextTiming ==
    \/ \E rq \in TimingRequests : CountedPOST("r1", rq)
    \/ Proceed("r1", Delays, OneAnswer)
    \/ RateFail("r1", Delays)

SpecTiming == Init /\ [][NextTiming]_vars

\* SpecRace: two handlers in progress at once for cache-enabled requests
\* with one cache key, the upstream answers either of two responses and the
\* set call may fail; no time passes; at most MaxStarts requests.
RaceRequests == {Forward(Some(UrlA), Enabled(t)) : t \in {None, Some(20)}}
BothAnswers == {UpOk(x) : x \in UpResponses}

NextRace ==
    \E r \in Reqs :
       \/ \E rq \in RaceRequests : CountedPOST(r, rq)
       \/ Proceed(r, NoDelay, BothAnswers)
       \/ SetFail(r)

SpecRace == Init /\ [][NextRace]_vars

\* SpecKey: two handlers hold cache-enabled requests that differ in client
\* address, method, url and body (none, the empty string, a text), and look
\* up and store under the keys getCacheKey gives them; at most MaxStarts
\* requests.
KeyRequests ==
    [json : {TRUE}, xff : XffValues, url : {Some(UrlA), Some(UrlSecure)},
     method : {"GET", "POST"}, body : Bodies, cache : {Enabled(None)}]

NextKey ==
    \E r \in Reqs :
       \/ \E rq \in KeyRequests : CountedPOST(r, rq)
       \/ Proceed(r, NoDelay, OneAnswer)

SpecKey == Init /\ [][NextKey]_vars

\* SpecLive: one handler at a time, requests with and without a valid url,
\* cache-enabled or not; the upstream answers, fails or is aborted after
\* 30 s, every store call is answered, fails or is never answered; at most
\* MaxStarts requests. Fairness: an await goes on once the awaited call is
\* settled, and fetch always settles (AbortSignal.timeout(30000)).
LiveRequests ==
    {BadJson, Forward(None, None)}
    \cup {Forward(Some(UrlA), c) : c \in {None, Enabled(None)}}

StepLive(r) ==
    \/ Proceed(r, NoDelay, {UpTimeout, UpError} \cup OneAnswer)
    \/ Fail(r, NoDelay)

NextLive ==
    \/ \E rq \in LiveRequests : CountedPOST("r1", rq)
    \/ StepLive("r1")
    \/ Unanswered("r1")

SpecLive == Init /\ [][NextLive]_vars /\ WF_vars(StepLive("r1"))

\* SpecStale: one handler at a time, cache-enabled requests for one key
\* with no ttl, a ttl below and a ttl above MAX_TTL; every store call may
\* fail; time passes between any two steps, and the time a handler stands
\* at its set call is recorded; at most MaxStarts requests.
StaleRequests == {Forward(Some(UrlA), Enabled(t)) : t \in {None, Some(20), Some(45)}}

NextStale ==
    \/ \E rq \in StaleRequests : CountedPOST("r1", rq)
    \/ Proceed("r1", NoDelay, OneAnswer)
    \/ Fail("r1", NoDelay)
    \/ (pc["r1"] # "set" /\ Tick)
    \/ SlowSet("r1")

SpecStale == Init /\ [][NextStale]_vars

\* SpecClient: two handlers in progress at once for cache-enabled requests;
\* the environment check and connect() may fail; no time passes; at most
\* MaxStarts requests.
NextClient ==
    \E r \in Reqs :
       \/ \E rq \in PairRequests : CountedPOST(r, rq)
       \/ Proceed(r, NoDelay, OneAnswer)
       \/ GetClientEnvFail(r, 0)
       \/ ConnectFail(r, 0)

SpecClient == Init /\ [][NextClient]_vars

\* -------------------------------------------------------------- properties
RateChecked(r) == pc[r] \in {"get", "ttl", "fetch", "set", "done"}
Rejected(r, status) == pc[r] = "done" /\ resp[r].status = status

C2_AtomicIncrement ==
    /\ \A c \in Ips :
         /\ rate[c].count = win[c].seq
         /\ ~win[c].dup
         /\ Cardinality(win[c].seen) = win[c].seq
         /\ win[c].passed <= RATE_LIMIT
    /\ \A r1, r2 \in Reqs :
         (r1 # r2 /\ loc[r1].requests > 0 /\ loc[r2].requests > 0)
         => loc[r1].requests # loc[r2].requests

\* One handler still awaits its expire call (it was given 1) while the
\* other has been given RATE_LIMIT + 1 and is answered 429.
C2_Witness ==
    \E r1, r2 \in Reqs :
      /\ pc[r1] = "expire" /\ loc[r1].requests = 1
      /\ Rejected(r2, 429) /\ loc[r2].requests = RATE_LIMIT + 1
      /\ win[Ip(r2)].passed = RATE_LIMIT - 1

\* C3: no request is answered 429 once RATE_LIMIT_WINDOW seconds have
\* passed since the first counted request of its window finished its rate
\* check, whatever store calls failed.
C3_AllowedAfterWindow ==
    \A r \in Reqs :
      Rejected(r, 429) => hist[r].since < RATE_LIMIT_WINDOW

\* C4: a handler in whose rate check a store call failed (getRedisClient,
\* incr, expire) goes on down the pipeline and is never answered 429; it is
\* answered with an error only when its upstream call failed.
C4_FailsOpen ==
    \A r \in Reqs :
      hist[r].rateFail
      => /\ RateChecked(r)
         /\ resp[r].status # 429
         /\ pc[r] = "done"
            => \/ resp[r].status = 200
               \/ resp[r].status = 500 /\ hist[r].up = Some(UpError)

\* The incr call fails for a client whose counter stands above RATE_LIMIT,
\* and the request is answered 200.
C4_Witness ==
    \E r \in Reqs :
      /\ hist[r].rateFail /\ hist[r].incr = 1 /\ loc[r].requests = 0
      /\ rate[Ip(r)].count > RATE_LIMIT
      /\ Rejected(r, 200)

\* C5: a request whose url is missing, empty or begins with neither
\* http:// nor https:// is answered 400 at once: it obtains no store client,
\* issues no incr, expire, get, ttl or set and no upstream call, and the
\* step that answers it leaves the client and the store as they were.
C5_BadUrl(url) ==
    \/ url = None
    \/ url[1] = UrlEmpty
    \/ ~(StartsWith(url[1], HTTP) \/ StartsWith(url[1], HTTPS))

C5_Answered(r) ==
    (pc[r] # "idle" /\ req[r].json /\ C5_BadUrl(req[r].url))
    => /\ Rejected(r, 400) /\ resp[r].body = ErrorBody("invalidUrl")
       /\ hist[r] = NoHistory

C5_Step(r) ==
    (pc'[r] # pc[r] /\ req'[r].json /\ C5_BadUrl(req'[r].url))
    => UNCHANGED <<redisClient, rate, cache>>

C5_InvalidUrlRejectedFirst ==
    /\ [](\A r \in Reqs : C5_Answered(r))
    /\ [][\A r \in Reqs : C5_Step(r)]_vars

\* A cache-enabled request for ftp://a is answered 400 after an earlier
\* request of the client was counted, and the counter still stands at 1.
C5_Witness ==
    \E r \in Reqs :
      /\ Rejected(r, 400) /\ req[r].json /\ req[r].url = Some(UrlFtp)
      /\ req[r].cache = Enabled(None)
      /\ rate[Ip(r)].count = 1 /\ started = 2

\* C6: a request whose cache config is absent or whose enabled is not true
\* obtains no store client and issues no incr, expire, get, ttl or set, its
\* steps leave every counter and cache entry as they were, and it is never
\* answered 429.
C6_Disabled(rq) == rq.cache = None \/ rq.cache[1].enabled # "true"

C6_Quiet(r) ==
    (pc[r] # "idle" /\ req[r].json /\ C6_Disabled(req[r]))
    => /\ hist[r].client = 0 /\ hist[r].incr = 0 /\ hist[r].expire = 0
       /\ hist[r].get = 0 /\ hist[r].ttl = 0 /\ hist[r].set = 0
       /\ resp[r].status # 429

C6_Step(r) ==
    (pc'[r] # pc[r] /\ req'[r].json /\ C6_Disabled(req'[r]))
    => UNCHANGED <<redisClient, rate, cache>>

C6_NoStoreCalls ==
    /\ [](\A r \in Reqs : C6_Quiet(r))
    /\ [][\A r \in Reqs : C6_Step(r)]_vars

\* A request with enabled = 1 (truthy, not true) is answered 200 from the
\* upstream while the client's counter stands above RATE_LIMIT.
C6_Witness ==
    \E r \in Reqs :
      /\ Rejected(r, 200) /\ req[r].cache # None /\ req[r].cache[1].enabled = "1"
      /\ hist[r].fetch = 1
      /\ rate[Ip(r)].count > RATE_LIMIT

\* C7: a request that follows a miss for the same method, url and body,
\* answered with 200, before the ttl that miss asked for has run out (and
\* that is not answered 429 and sees no store call fail) is answered from
\* the cache, with cache.ttl at most the ttl the miss asked for.
C7_HitAfterMiss ==
    \A r \in Reqs :
      (pc[r] = "done" /\ hist[r].after # None /\ ~hist[r].rateFail
       /\ ~hist[r].lookupFail /\ resp[r].status # 429)
      => /\ resp[r].status = 200
         /\ resp[r].body.cache.hit
         /\ resp[r].body.cache.ttl <= AskedTtl(hist[r].after[1])

\* C8: the expiry handed to the set call is min(requested ttl, MAX_TTL) for
\* a requested ttl above 0 and MAX_TTL for one that is absent, 0 or
\* negative: always in 1..MAX_TTL.
C8_ExpiryInRange ==
    \A r \in Reqs :
      hist[r].ex # None
      => /\ hist[r].ex[1] \in 1..MAX_TTL
         /\ hist[r].ex[1] = MinNum(AskedTtl(req[r].cache[1]), MAX_TTL)

\* C9: a handler whose lookup failed (getRedisClient in POST, get, ttl) goes
\* on to the upstream call, exactly one, and is answered as the same
\* request is with caching disabled, timing apart: the upstream response
\* with cache.hit = false, or 408 or 500 as the upstream call failed.
C9_Status(up) ==
    IF up.kind = "ok" THEN 200 ELSE IF up.kind = "timeout" THEN 408 ELSE 500

C9_Uncached(reply, up) ==
    /\ reply.status = C9_Status(up)
    /\ reply.status = 200
       => [reply.body EXCEPT !.timing = 0]
          = [status |-> up.response.status,
             statusText |-> up.response.statusText,
             headers |-> up.response.headers,
             data |-> up.response.data,
             timing |-> 0, cache |-> [hit |-> FALSE]]
    /\ reply.status = 408 => reply.body = ErrorBody("timeout")
    /\ reply.status = 500 => reply.body = ErrorBody("serverError")

C9_LookupFailureIsMiss ==
    \A r \in Reqs :
      hist[r].lookupFail
      => /\ pc[r] \in {"fetch", "set", "done"}
         /\ pc[r] = "done"
            => /\ hist[r].fetch = 1
               /\ C9_Uncached(resp[r], hist[r].up[1])

\* The ttl call fails after the get call found the entry, and the request
\* is answered 200 with cache.hit = false.
C9_Witness ==
    \E r \in Reqs :
      /\ hist[r].lookupFail /\ hist[r].ttl = 1
      /\ Rejected(r, 200) /\ ~resp[r].body.cache.hit

\* C10: a handler whose set call failed is answered 200 with the envelope
\* of its upstream response (its timing, cache.hit = false), and it has
\* made one set call.
C10_Envelope(r) ==
    LET rsp == hist[r].up[1].response
    IN  [status |-> rsp.status, statusText |-> rsp.statusText,
         headers |-> rsp.headers, data |-> rsp.data, timing |-> loc[r].el,
         cache |-> [hit |-> FALSE]]

C10_WriteFailureSwallowed ==
    \A r \in Reqs :
      (pc[r] = "done" /\ (hist[r].setFail \/ hist[r].exRejected))
      => /\ hist[r].set = 1
         /\ hist[r].up # None /\ hist[r].up[1].kind = "ok"
         /\ resp[r].status = 200
         /\ resp[r].body = C10_Envelope(r)

\* The set call fails and the request is answered 200; the key is not in
\* the cache.
C10_Witness ==
    \E r \in Reqs :
      /\ hist[r].setFail /\ Rejected(r, 200)
      /\ ~cache[KeyOf(r)].present

\* C11: a handler whose upstream call failed is done: it is answered 408 if
\* the failure was the 30 s abort and 500 for any other failure, and it has
\* made no set call, so no cache entry was written for the request.
C11_Failed(r) ==
    pc[r] = "done" /\ hist[r].up # None /\ hist[r].up[1].kind # "ok"

C11_UpstreamFailure ==
    \A r \in Reqs :
      /\ (hist[r].up # None /\ hist[r].up[1].kind # "ok") => pc[r] = "done"
      /\ C11_Failed(r)
         => /\ resp[r].status = (IF hist[r].up[1] = UpTimeout THEN 408 ELSE 500)
            /\ hist[r].fetch = 1
            /\ hist[r].set = 0

\* The upstream call of a cache-enabled request that holds a store client
\* and missed the cache is aborted: 408, and the key is not in the cache.
C11_Witness ==
    \E r \in Reqs :
      /\ C11_Failed(r) /\ hist[r].up[1] = UpTimeout /\ resp[r].status = 408
      /\ loc[r].redis /\ hist[r].get = 1 /\ ~hist[r].lookupFail
      /\ ~cache[KeyOf(r)].present

\* C12: a handler that isRateLimited reports over the limit is answered 429
\* there and then, and a handler answered 429 has made no upstream call and
\* no get, ttl or set call on the cache.
C12_RejectedBeforeForward ==
    \A r \in Reqs :
      /\ loc[r].requests > RATE_LIMIT => Rejected(r, 429)
      /\ resp[r].status = 429
         => /\ pc[r] = "done"
            /\ hist[r].fetch = 0 /\ hist[r].sent = None
            /\ hist[r].get = 0 /\ hist[r].ttl = 0 /\ hist[r].set = 0

\* A cache-enabled request is answered 429 while the response of an earlier
\* request with the same key is in the cache.
C12_Witness ==
    \E r \in Reqs :
      /\ Rejected(r, 429) /\ loc[r].requests = RATE_LIMIT + 1
      /\ UseRedis(req[r].cache) /\ cache[KeyOf(r)].present
      /\ hist[r].fetch = 0 /\ hist[r].get = 0

\* C14: whatever fails, a handler makes at most one incr call (and one
\* expire call) on the rate counter, one get call (and one ttl call) on the
\* cache, one upstream call and one set call.
C14_NoRetry ==
    \A r \in Reqs :
      /\ hist[r].incr <= 1 /\ hist[r].expire <= 1
      /\ hist[r].get <= 1 /\ hist[r].ttl <= 1
      /\ hist[r].fetch <= 1
      /\ hist[r].set <= 1

\* The rate check, the lookup and the set call of one request have all
\* failed, and it is answered 200 after one call of each kind.
C14_Witness ==
    \E r \in Reqs :
      /\ Rejected(r, 200)
      /\ hist[r].rateFail /\ hist[r].lookupFail /\ hist[r].setFail
      /\ hist[r].incr = 1 /\ hist[r].get = 1 /\ hist[r].fetch = 1
      /\ hist[r].set = 1

\* C16: the upstream call of a GET or HEAD request is issued without a
\* body, whatever body the request carried; the upstream call of a request
\* with any other method is issued with the body of the request, unchanged
\* (none if the request has none).
C16_BodyForwarded ==
    \A r \in Reqs :
      hist[r].fetch >= 1
      => /\ hist[r].sent # None
         /\ hist[r].sent[1] =
              (IF req[r].method \in {"GET", "HEAD"} THEN None ELSE req[r].body)

\* The upstream call of a HEAD request that carries a body has been issued
\* without a body.
C16_Witness ==
    \E r \in Reqs :
      /\ Rejected(r, 200) /\ req[r].method = "HEAD"
      /\ req[r].body = Some(<<"x">>)
      /\ hist[r].sent = Some(None)

\* C17: a handler answered from the cache reports as timing the time
\* elapsed since its own handling started and as timeSaved the stored
\* originalTiming minus that time, negative if the hit took longer than the
\* original call: timing + timeSaved is the stored originalTiming.
C17_Hit(r) == Rejected(r, 200) /\ resp[r].body.cache.hit

C17_TimeSaved ==
    \A r \in Reqs :
      C17_Hit(r)
      => LET original == loc[r].cached.value.originalTiming
             reply == resp[r].body
         IN  /\ reply.timing = loc[r].el
             /\ reply.cache.timeSaved = original - loc[r].el
             /\ reply.timing + reply.cache.timeSaved = original

\* A hit that took longer than the original call: timeSaved is negative.
C17_Witness ==
    \E r \in Reqs :
      /\ C17_Hit(r) /\ resp[r].body.cache.timeSaved < 0
      /\ loc[r].cached.value.originalTiming < loc[r].el

\* C18: a handler answered 200 on a miss reports as timing the time its
\* upstream call took, from right before the call to after the body is
\* read, and stores the same number as originalTiming.
C18_Miss(r) == Rejected(r, 200) /\ ~resp[r].body.cache.hit
C18_Stored(r) ==
    hist[r].set = 1 /\ ~hist[r].setFail /\ ~hist[r].exRejected

C18_TimingOfUpstreamCall ==
    \A r \in Reqs :
      C18_Miss(r)
      => /\ resp[r].body.timing = hist[r].upMs
         /\ C18_Stored(r)
            => /\ cache[KeyOf(r)].present
               /\ JSONparse(cache[KeyOf(r)].val).originalTiming = hist[r].upMs

\* C18, amended: a handler answered 200 on a miss reports as timing the
\* time elapsed since its handling started: the time spent before the
\* upstream call plus the time the call took; it stores the same number as
\* originalTiming.
C18_TimingSinceStart ==
    \A r \in Reqs :
      C18_Miss(r)
      => /\ resp[r].body.timing = hist[r].pre + hist[r].upMs
         /\ C18_Stored(r)
            => /\ cache[KeyOf(r)].present
               /\ JSONparse(cache[KeyOf(r)].val).originalTiming
                    = hist[r].pre + hist[r].upMs

\* A miss whose store calls before the upstream call took time is answered
\* and stored with a timing greater than the time of the upstream call.
C18_Witness ==
    \E r \in Reqs :
      /\ C18_Miss(r) /\ C18_Stored(r) /\ hist[r].pre > 0
      /\ resp[r].body.timing > hist[r].upMs
      /\ cache[KeyOf(r)].present

\* C19: a handler that has answered a POST, PUT or DELETE request with 200
\* has not served it from the cache, and when it is done no entry for the
\* url of the request is in the cache, the response to the request itself
\* included.
C19_Writes == {"POST", "PUT", "DELETE"}
C19_KeysOfUrl(url) == {getCacheKey(m, url, b) : m \in Methods, b \in Bodies}

C19_InvalidatedByWrite ==
    \A r \in Reqs :
      (Rejected(r, 200) /\ req[r].method \in C19_Writes)
      => /\ ~resp[r].body.cache.hit
         /\ \A k \in C19_KeysOfUrl(req[r].url[1]) : ~cache[k].present

\* C13: a handler that has made its set call is answered 200 with its own
\* upstream response, and a set call the store accepts leaves under the key
\* exactly the response and expiry of the handler that made it, whatever
\* the key held, and leaves every other key alone: of two handlers that
\* both missed, the one that puts later leaves the entry.
C13_Put(r) ==
    /\ pc[r] = "set" /\ pc'[r] = "done"
    /\ ~hist'[r].setFail /\ ~hist'[r].exRejected

C13_Entry(reply, ex, wait) ==
    [present |-> TRUE, val |-> CacheValue(reply), ttl |-> ex,
     hist |-> [reply |-> reply, wait |-> wait, age |-> 0]]

C13_Answered ==
    \A r \in Reqs :
      (pc[r] = "done" /\ hist[r].set = 1)
      => /\ resp[r].status = 200
         /\ resp[r].body = loc[r].responseData

C13_LastWriteWins ==
    /\ []C13_Answered
    /\ [][\A r \in Reqs :
            C13_Put(r)
            => cache' = [cache EXCEPT ![KeyOf(r)] =
                           C13_Entry(resp'[r].body, hist'[r].ex[1],
                                     hist'[r].wait)]]_vars

\* Two handlers with the same key have both missed, both called the
\* upstream, which answered them differently, and both put: both are
\* answered 200 and the entry is the one of r2, not the one of r1.
C13_Missed(r) ==
    /\ Rejected(r, 200) /\ ~resp[r].body.cache.hit
    /\ hist[r].get = 1 /\ hist[r].fetch = 1 /\ C18_Stored(r)

C13_Witness ==
    /\ C13_Missed("r1") /\ C13_Missed("r2")
    /\ KeyOf("r1") = KeyOf("r2")
    /\ resp["r1"].body.data # resp["r2"].body.data
    /\ cache[KeyOf("r2")].present
    /\ JSONparse(cache[KeyOf("r2")].val).data = resp["r2"].body
    /\ JSONparse(cache[KeyOf("r2")].val).data # resp["r1"].body

\* C15: two requests with the same method, url and body are given the same
\* cache key, whatever headers they carry; two requests with the same
\* method that differ in url or in body (no body and the empty string being
\* different bodies) are given different cache keys.
C15_Keyed(r) == pc[r] # "idle" /\ req[r].json
C15_Triple(r) == <<req[r].method, req[r].url, req[r].body>>

C15_KeyOfTriple ==
    \A r1, r2 \in Reqs :
      (C15_Keyed(r1) /\ C15_Keyed(r2))
      => /\ C15_Triple(r1) = C15_Triple(r2) => KeyOf(r1) = KeyOf(r2)
         /\ (req[r1].method = req[r2].method
              /\ C15_Triple(r1) # C15_Triple(r2))
            => KeyOf(r1) # KeyOf(r2)

\* C20: a handler that has taken up a request is eventually done, answered
\* 200, 400, 408, 429 or 500, whether the upstream stalls or the store
\* stops answering.
C20_Outcomes == {200, 400, 408, 429, 500}

C20_Terminates ==
    \A r \in Reqs :
      (pc[r] \notin {"idle", "done"})
      ~> (pc[r] = "done" /\ resp[r].status \in C20_Outcomes)

\* C21: the step that answers a request 429 has added one to the counter of
\* its client and left the expiry of the counter as it was; and a step of
\* a handler changes the expiry of a counter only if the handler is the one
\* whose incr took that counter to 1.
C21_RejectedHere(r) ==
    pc[r] # "done" /\ pc'[r] = "done" /\ resp'[r].status = 429

C21_Step ==
    \A c \in Ips :
      /\ \A r \in Reqs :
           (C21_RejectedHere(r) /\ Ip(r) = c)
           => /\ rate'[c].count = rate[c].count + 1
              /\ rate'[c].ttl = rate[c].ttl
      /\ (pc' # pc /\ rate'[c].ttl # rate[c].ttl)
         => \E r \in Reqs :
              /\ pc'[r] # pc[r] /\ pc[r] \in {"incr", "expire"}
              /\ Ip(r) = c /\ loc'[r].requests = 1

C21_WindowKept == [][C21_Step]_vars

\* A request is answered 429 part of the way through the window: the
\* counter is past the limit and its expiry is what is left of the window.
C21_Witness ==
    \E r \in Reqs :
      /\ Rejected(r, 429) /\ hist[r].incr = 1
      /\ rate[Ip(r)].count = loc[r].requests
      /\ rate[Ip(r)].count > RATE_LIMIT
      /\ rate[Ip(r)].ttl > 0 /\ rate[Ip(r)].ttl < RATE_LIMIT_WINDOW

\* C22: a handler answered from the cache has made no upstream call and no
\* set call, and neither its get step nor the ttl step that answers it
\* changes the cache: the value and the time left of the entry stay as
\* they were.
C22_Terminal ==
    \A r \in Reqs :
      C17_Hit(r) => hist[r].fetch = 0 /\ hist[r].set = 0 /\ hist[r].up = None

C22_LookupStep(r) == pc[r] \in {"get", "ttl"} /\ pc'[r] # pc[r]

C22_HitIsTerminal ==
    /\ []C22_Terminal
    /\ [][\A r \in Reqs : C22_LookupStep(r) => cache' = cache]_vars

\* A request is answered from the cache; the entry is still there with the
\* time left that the hit reported, less than MAX_TTL.
C22_Witness ==
    \E r \in Reqs :
      /\ C17_Hit(r) /\ hist[r].get = 1 /\ hist[r].ttl = 1
      /\ cache[KeyOf(r)].present
      /\ cache[KeyOf(r)].ttl = resp[r].body.cache.ttl
      /\ cache[KeyOf(r)].ttl < MAX_TTL

\* C24: a handler answered from the cache reports a cache.ttl from 0 to
\* MAX_TTL, never the -2 or -1 the store answers for a key that is gone or
\* has no expiry.
C24_TtlInRange ==
    \A r \in Reqs :
      C17_Hit(r)
      => resp[r].body.cache.ttl >= 0 /\ resp[r].body.cache.ttl <= MAX_TTL

\* C23: a handler answered from the cache found, at its get call, an entry
\* whose response came from an upstream call that had ended no more than
\* MAX_TTL seconds before.
C23_Found(r) == hist[r].found[1]

C23_BoundedStaleness ==
    \A r \in Reqs :
      C17_Hit(r)
      => /\ hist[r].found # None
         /\ C23_Found(r).wait + C23_Found(r).age <= MAX_TTL

\* C23, amended: every entry in the cache was written by a set call less
\* than MAX_TTL seconds ago and the time it has left is what remains of
\* MAX_TTL seconds at most; so a handler answered from the cache found, at
\* its get call, an entry written less than MAX_TTL seconds before.
C23_EntryYoung(entry) ==
    /\ entry.ttl >= 1
    /\ entry.hist.age >= 0
    /\ entry.hist.age + entry.ttl <= MAX_TTL

C23_FreshSincePut ==
    /\ \A k \in CacheKeys : cache[k].present => C23_EntryYoung(cache[k])
    /\ \A r \in Reqs :
         C17_Hit(r)
         => /\ hist[r].found # None
            /\ C23_Found(r).age >= 0 /\ C23_Found(r).age < MAX_TTL

\* A handler is answered from the cache with a response whose upstream
\* call ended more than MAX_TTL seconds before its get call: the set call
\* that stored it was answered late.
C23_Witness ==
    \E r \in Reqs :
      /\ C17_Hit(r) /\ hist[r].found # None
      /\ C23_Found(r).wait > 0 /\ C23_Found(r).age > 0
      /\ C23_Found(r).wait + C23_Found(r).age > MAX_TTL

\* C25: the entry a set call writes goes back to the response its handler
\* returns, a miss; and a handler answered from the cache returns the
\* status, statusText, headers and data of the response that the entry it
\* found at its get call goes back to.
C25_Same(hit, miss) ==
    /\ hit.status = miss.status /\ hit.statusText = miss.statusText
    /\ hit.headers = miss.headers /\ hit.data = miss.data

C25_Hits ==
    \A r \in Reqs :
      C17_Hit(r)
      => /\ hist[r].found # None
         /\ ~C23_Found(r).reply.cache.hit
         /\ C25_Same(resp[r].body, C23_Found(r).reply)

C25_HitReturnsMiss ==
    /\ []C25_Hits
    /\ [][\A r \in Reqs :
            C13_Put(r)
            => /\ cache'[KeyOf(r)].hist.reply = resp'[r].body
               /\ ~resp'[r].body.cache.hit]_vars

\* r1 missed, was answered 404 by the upstream and stored the response; r2
\* is answered from the cache with that 404 response.
C25_Witness ==
    /\ C13_Missed("r1") /\ resp["r1"].body.status = 404
    /\ C17_Hit("r2") /\ KeyOf("r1") = KeyOf("r2")
    /\ C25_Same(resp["r2"].body, resp["r1"].body)
    /\ resp["r2"].body.cache # resp["r1"].body.cache

\* C26: a step in which getRedisClient returns a client to its caller
\* returns a client whose connect() has resolved, not one that is still
\* connecting and not one whose connect() was rejected; and once a client
\* is connected, the module keeps that client.
C26_HandedOut(r) ==
    /\ (AtClientCall(r) \/ AtConnect(r))
    /\ pc'[r] # pc[r] /\ pc'[r] \in {"rlClient", "incr"}

C26_Step ==
    /\ \A r \in Reqs : C26_HandedOut(r) => redisClient' = "connected"
    /\ redisClient = "connected" => redisClient' = "connected"

C26_OnlyConnectedClient == [][C26_Step]_vars

\* C27: whenever no handler of a client is inside the rate check, a counter
\* that exists for the client has an expiry, at most RATE_LIMIT_WINDOW
\* seconds away.
C27_InRateCheck(r, c) ==
    pc[r] \in {"rlClient", "rlConnect", "incr", "expire"} /\ Ip(r) = c

C27_NoImmortalCounter ==
    \A c \in Ips :
      ((\A r \in Reqs : ~C27_InRateCheck(r, c)) /\ rate[c].count > 0)
      => rate[c].ttl >= 1 /\ rate[c].ttl <= RATE_LIMIT_WINDOW

====
